---- MODULE Spec2Model ----
(***************************************************************************)
(* A model of index.js, the non-transitive dice game: the uniform sampler  *)
(* Crypto.randomNumber, the commit/reveal round FairRandom.generate with   *)
(* its input loop, the probability table of ProbabilityCalculator and      *)
(* TableRenderer, and the game flow of Game.play and main.                 *)
(*                                                                         *)
(* Strings are sequences of one-character strings, so that split,          *)
(* parseInt, toLowerCase and toString are computed and not assumed.        *)
(* A JavaScript number that may be NaN, and a local that may be unset, is  *)
(* a sequence of length at most one: <<n>> is the number n.                *)
(***************************************************************************)
EXTENDS Integers, Sequences, FiniteSets, TLC

\* ------------------------------------------------------------------ bounds

\* The sampler is called directly with min in -MinSpan..MinSpan.
MinSpan == 1
\* ... and with max - min + 1 from -NegRange up to MaxRange.
MaxRange == 258
NegRange == 3
\* The byte draws of one randomNumber call are counted up to MaxDraws.
MaxDraws == 2
\* The help requests and the invalid answers of one prompt are counted up to
\* MaxRetries each.
MaxRetries == 1
\* generate is called directly with min in -GenMinSpan..GenMinSpan and
\* max - min + 1 in 1..GenMaxRange.
GenMinSpan == 1
GenMaxRange == 3
\* The faces of the dice calculate is called with on its own are 1..MaxPip.
MaxPip == 2
\* The draw of the computer's dice is entered on its own with
\* 256 - DiceSpan .. 256 + DiceSpan dice.
DiceSpan == 2

\* --------------------------------------------------------------- constants

\* crypto.randomBytes(1)[0] is one of ByteValues values, 0..ByteValues-1.
ByteValues == 256

\* ------------------------------------------------------- JavaScript values

Unset == <<>>
NaN == <<>>
Num(n) == <<n>>
Val(x) == x[1]
IsNaN(x) == x = NaN

Abs(n) == IF n < 0 THEN -n ELSE n

\* Math.floor(a / b) for integers a and b # 0.
FloorDiv(a, b) == IF b > 0 THEN a \div b ELSE (-a) \div (-b)

\* a % b of JavaScript for integers: the remainder has the sign of a; b = 0
\* gives NaN.
JsRem(a, b) ==
    IF b = 0 THEN NaN
    ELSE LET r == Abs(a) % Abs(b) IN Num(IF a < 0 THEN -r ELSE r)

\* ------------------------------------------------------ Crypto.randomNumber

Range(min, max) == max - min + 1

\* Math.floor(256 / range) * range; 256 / 0 is Infinity and Infinity * 0 is NaN.
LimitBiased(range) == Num(ByteValues)
Limit(range) ==
    IF range = 0 THEN NaN ELSE Num(FloorDiv(ByteValues, range) * range)

\* value >= limit, the condition of the do-while; a comparison with NaN is false.
Rejected(value, range) ==
    LET limit == Limit(range) IN
    IF IsNaN(limit) THEN FALSE ELSE value >= Val(limit)

\* min + (value % range); NaN if value % range is.
SampleValueNoOffset(min, range, value) == JsRem(value, range)
SampleValue(min, range, value) ==
    LET r == JsRem(value, range) IN
    IF IsNaN(r) THEN NaN ELSE Num(min + Val(r))

\* ----------------------------------------------------------------- strings

Digits == <<"0", "1", "2", "3", "4", "5", "6", "7", "8", "9",
            "a", "b", "c", "d", "e", "f">>
Upper == <<"A", "B", "C", "D", "E", "F", "X">>
Lower == <<"a", "b", "c", "d", "e", "f", "x">>

\* String.prototype.toLowerCase, over the letters the inputs are made of.
LowerChar(c) ==
    IF \E i \in DOMAIN Upper : Upper[i] = c
    THEN Lower[CHOOSE i \in DOMAIN Upper : Upper[i] = c]
    ELSE c
ToLowerCase(s) == [i \in DOMAIN s |-> LowerChar(s[i])]

\* The value of the character c as a digit of the radix, or -1.
DigitValue(c, radix) ==
    LET l == LowerChar(c) IN
    IF \E i \in 1..radix : Digits[i] = l
    THEN (CHOOSE i \in 1..radix : Digits[i] = l) - 1
    ELSE -1

RECURSIVE TrimStart(_)
TrimStart(s) ==
    IF s # <<>> /\ Head(s) = " " THEN TrimStart(Tail(s)) ELSE s

\* The length of the longest prefix of s made of digits of the radix.
RECURSIVE DigitPrefix(_, _)
DigitPrefix(s, radix) ==
    IF s # <<>> /\ DigitValue(Head(s), radix) >= 0
    THEN 1 + DigitPrefix(Tail(s), radix)
    ELSE 0

RECURSIVE DigitsValue(_, _, _)
DigitsValue(s, radix, acc) ==
    IF s = <<>> THEN acc
    ELSE DigitsValue(Tail(s), radix, acc * radix + DigitValue(Head(s), radix))

\* parseInt(s) with no radix: leading blanks are skipped, a sign is read, a
\* 0x prefix makes the radix 16, and the longest prefix of digits is the value;
\* what follows it is ignored. No digit at all gives NaN.
ParseInt(s) ==
    LET t == TrimStart(s)
        signed == t # <<>> /\ Head(t) \in {"+", "-"}
        neg == t # <<>> /\ Head(t) = "-"
        u == IF signed THEN Tail(t) ELSE t
        hex == Len(u) >= 2 /\ u[1] = "0" /\ u[2] \in {"x", "X"}
        radix == IF hex THEN 16 ELSE 10
        body == IF hex THEN SubSeq(u, 3, Len(u)) ELSE u
        n == DigitPrefix(body, radix)
        v == DigitsValue(SubSeq(body, 1, n), radix, 0)
    IN IF n = 0 THEN NaN ELSE Num(IF neg THEN -v ELSE v)

\* Number.prototype.toString of an integer: its decimal digits, "-" first.
RECURSIVE NatToString(_)
NatToString(n) ==
    IF n < 10 THEN <<Digits[n + 1]>>
    ELSE NatToString(n \div 10) \o <<Digits[(n % 10) + 1]>>
IntToString(n) == IF n < 0 THEN <<"-">> \o NatToString(-n) ELSE NatToString(n)

\* s.split(','): the pieces between the commas; a string with no comma, the
\* empty one too, is one piece.
RECURSIVE Split(_)
Split(s) ==
    IF \E i \in DOMAIN s : s[i] = ","
    THEN LET i == CHOOSE j \in DOMAIN s :
                     s[j] = "," /\ \A k \in 1..(j - 1) : s[k] # ","
         IN <<SubSeq(s, 1, i - 1)>> \o Split(SubSeq(s, i + 1, Len(s)))
    ELSE <<s>>

\* faces.join(',')
RECURSIVE Join(_)
Join(parts) ==
    IF parts = <<>> THEN <<>>
    ELSE IF Len(parts) = 1 THEN parts[1]
    ELSE parts[1] \o <<",">> \o Join(Tail(parts))

\* ------------------------------------------------------------------ Crypto

\* Crypto.generateKey: crypto.randomBytes(32). The entropy source is taken to
\* hand out a block it has not handed out before (a repeat has probability
\* 2^-256); the n-th block drawn is named n.
GenerateKeyCached(drawn) == IF drawn = 0 THEN 1 ELSE drawn
GenerateKey(drawn) == drawn + 1

\* key.toString('hex').toUpperCase(), and the reading back of it.
KeyHex(k) == <<"HEX", k>>
HexDecode(h) == h[2]

\* Crypto.hmac: the HMAC-SHA3-256 of message.toString() under the key, as the
\* term it is computed from: two digests are equal only if key and message are.
Hmac(k, message) == <<"HMAC", k, IntToString(message)>>
DigestKey(h) == h[2]

\* ------------------------------------------------------- Dice, DiceParser

\* Dice.roll(index): faces[index], counted from 0.
Roll(faces, index) == faces[index + 1]

\* Dice.toString: faces.join(',')
DiceToString(faces) == Join([i \in DOMAIN faces |-> IntToString(faces[i])])

\* The number of sides a die must have.
Sides == 6
\* The least number of dice.
MinDice == 3
\* The greatest index of a face: the rolls are generate(0, 5).
MaxFace == 5

\* The least number of a set of numbers that is not empty.
Least(S) == CHOOSE i \in S : \A k \in S : i <= k

\* The error the inner loop of parse throws for one argument, or <<>>.
DieError(arg) ==
    LET sides == Split(arg)
        bad == {j \in DOMAIN sides : IsNaN(ParseInt(sides[j]))}
    IN IF Len(sides) # Sides THEN <<"sides", Len(sides)>>
       ELSE IF bad # {} THEN <<"non-integer", sides[Least(bad)]>>
       ELSE <<>>

\* The faces of a well-formed argument.
DieFaces(arg) ==
    LET sides == Split(arg) IN [j \in DOMAIN sides |-> Val(ParseInt(sides[j]))]

\* DiceParser.parse(args): the error thrown, that of the first bad argument,
\* or <<>>.
ParseError(as) ==
    LET bad == {i \in DOMAIN as : DieError(as[i]) # <<>>} IN
    IF Len(as) = 0 THEN <<"no dice">>
    ELSE IF Len(as) < MinDice THEN <<"too few", Len(as)>>
    ELSE IF bad # {} THEN <<"dice", Least(bad)>> \o DieError(as[Least(bad)])
    ELSE <<>>

\* DiceParser.parse(args): the dice, when no error is thrown.
Parse(as) == [i \in DOMAIN as |-> DieFaces(as[i])]

\* ------------------------------------ ProbabilityCalculator, TableRenderer

\* The bounds of the two loops of calculate, and what it divides by.
FaceCount == 6
FacePairs == 36

\* dice1.roll(i) > dice2.roll(j)
BeatsOrTies(a, b) == a >= b
Beats(a, b) == a > b

\* The wins the two loops of calculate count from the pass (i, j) on.
RECURSIVE WinsFrom(_, _, _, _)
WinsFrom(dice1, dice2, i, j) ==
    IF i >= FaceCount THEN 0
    ELSE IF j >= FaceCount THEN WinsFrom(dice1, dice2, i + 1, 0)
    ELSE (IF Beats(Roll(dice1, i), Roll(dice2, j)) THEN 1 ELSE 0)
         + WinsFrom(dice1, dice2, i, j + 1)

\* ProbabilityCalculator.calculate(dice1, dice2): wins / 36, kept as the
\* fraction.
Calculate(dice1, dice2) ==
    [num |-> WinsFrom(dice1, dice2, 0, 0), den |-> FacePairs]

\* The n decimal digits of k, zeros in front.
RECURSIVE Padded(_, _)
Padded(k, n) ==
    IF n = 0 THEN <<>> ELSE Append(Padded(k \div 10, n - 1), Digits[(k % 10) + 1])

\* Ten to the n.
RECURSIVE Pow10(_)
Pow10(n) == IF n = 0 THEN 1 ELSE 10 * Pow10(n - 1)

\* prob.toFixed(n) of a fraction that is not negative: the nearest decimal of
\* n places (no fraction wins / 36 lies halfway between two of four places).
ToFixed(prob, n) ==
    LET scaled == (2 * prob.num * Pow10(n) + prob.den) \div (2 * prob.den)
    IN NatToString(scaled \div Pow10(n)) \o <<".">> \o Padded(scaled % Pow10(n), n)

\* The places the table shows, and what it shows on the diagonal.
Places == 4
Diagonal == <<".", "3", "3", "3", "3">>

\* TableRenderer.render(dice): the head, and the rows with their labels.
RenderTransposed(ds) ==
    [head |-> <<"User dice v">> \o [i \in DOMAIN ds |-> DiceToString(ds[i])],
     rows |-> [i \in DOMAIN ds |->
                 [label |-> DiceToString(ds[i]),
                  cells |-> [j \in DOMAIN ds |->
                               IF i = j THEN Diagonal
                               ELSE ToFixed(Calculate(ds[j], ds[i]), Places)]]]]
Render(ds) ==
    [head |-> <<"User dice v">> \o [i \in DOMAIN ds |-> DiceToString(ds[i])],
     rows |-> [i \in DOMAIN ds |->
                 [label |-> DiceToString(ds[i]),
                  cells |-> [j \in DOMAIN ds |->
                               IF i = j THEN Diagonal
                               ELSE ToFixed(Calculate(ds[i], ds[j]), Places)]]]]

\* Game.showHelp(): what it writes, the table of the current game's dice
\* ("table" stands for Render of them) or the note that no game is running.
ShowHelp(cur) == IF cur THEN "table" ELSE "note"

\* The command lines the game is started with; the last dice of the last one
\* is -1,0,10,4,4.5,12.
Csv(faces) == DiceToString(faces)
ArgSets ==
    { <<>>,
      <<Csv(<<2, 2, 4, 4, 9, 9>>), Csv(<<6, 8, 1, 1, 8, 6>>)>>,
      <<Csv(<<2, 2, 4, 4, 9, 9>>), Csv(<<6, 8, 1, 1, 8>>),
        Csv(<<7, 5, 3, 7, 5, 3>>)>>,
      <<Csv(<<2, 2, 4, 4, 9, 9>>), Csv(<<6, 8, 1, 1, 8, 6>>),
        <<"7", ",", "5", ",", "a", ",", "7", ",", "5", ",", "3">>>>,
      <<Csv(<<2, 2, 4, 4, 9, 9>>), Csv(<<1, 1, 6, 6, 8, 8>>),
        Csv(<<3, 3, 5, 5, 7, 7>>)>>,
      <<Csv(<<2, 2, 4, 4, 9, 9>>), Csv(<<6, 8, 1, 1, 8, 6>>),
        Csv(<<7, 5, 3, 7, 5, 3>>),
        Csv(<<-1, 0, 10, 4>>) \o <<",", "4", ".", "5", ",", "1", "2">>>> }

\* ------------------------------------------------------------------- state

VARIABLES
    pc,            \* where main / Game.play stands
    args,          \* process.argv.slice(2)
    dice,          \* Game.dice: the parsed dice, a sequence of face sequences
    currentGame,   \* Game.currentGame is set
    smp,           \* the running call of Crypto.randomNumber
    keysDrawn,     \* the 32-byte blocks the entropy source has handed out
    rounds,        \* the calls of FairRandom.generate so far
    gpc,           \* where the running call of FairRandom.generate stands
    gmin, gmax,    \* its arguments
    key, computerNum, hmac, userNum, result,   \* its locals
    inp,           \* the running readline loop (getUserInput or selectDice)
    out,           \* what the protocol has written to the console, in order
    computerDice, userDice, computerRoll, userRoll,   \* locals of Game.play
    outcome,       \* the line Game.play ends with
    calc           \* the running call of calculate or render

gameVars == <<pc, args, dice, currentGame, computerDice, userDice,
              computerRoll, userRoll, outcome>>
genVars == <<keysDrawn, rounds, gpc, gmin, gmax, key, computerNum, hmac,
             userNum, result, inp, out>>
vars == <<pc, args, dice, currentGame, smp, keysDrawn, rounds, gpc, gmin, gmax,
          key, computerNum, hmac, userNum, result, inp, out,
          computerDice, userDice, computerRoll, userRoll, outcome, calc>>

\* The process runs: process.exit has not been called and main has not ended.
Running == pc \notin {"exited", "error", "done"}

\* No call of randomNumber is running.
SmpIdle == [pc |-> "idle", min |-> 0, max |-> 0, draws |-> 0, ret |-> Unset]

\* Entry of randomNumber(min, max): nothing drawn yet.
SmpCall(min, max) ==
    [pc |-> "loop", min |-> min, max |-> max, draws |-> 0, ret |-> Unset]

\* No readline loop is running. inp.answer is the line getUserInput has
\* returned a number from, inp.shown what the last help of the loop has written.
InpIdle ==
    [kind |-> "none", exclude |-> 0, helps |-> 0, invalids |-> 0,
     answer |-> Unset, shown |-> Unset]

Bump(n, cap) == IF n < cap THEN n + 1 ELSE n

\* One pass of the do-while whose byte is rejected: value >= limit, draw again.
\* The rejected byte is overwritten by the next pass before it is read, so the
\* state does not keep it; smp.draws counts the bytes drawn.
RandomNumberRedraw ==
    /\ Running /\ smp.pc = "loop"
    /\ \E b \in 0..(ByteValues - 1) : Rejected(b, Range(smp.min, smp.max))
    /\ smp' = [smp EXCEPT !.draws = Bump(@, MaxDraws)]
    /\ UNCHANGED <<calc, gameVars, genVars>>

\* The pass whose byte is accepted: the loop ends and min + value % range is
\* returned.
RandomNumberReturn ==
    /\ Running /\ smp.pc = "loop"
    /\ \E b \in 0..(ByteValues - 1) :
        /\ ~Rejected(b, Range(smp.min, smp.max))
        /\ smp' = [smp EXCEPT !.pc = "ret",
                              !.draws = Bump(@, MaxDraws),
                              !.ret = SampleValue(smp.min, Range(smp.min, smp.max), b)]
    /\ UNCHANGED <<calc, gameVars, genVars>>

\* ------------------------------------------------------ FairRandom.generate

\* What the user may type at a prompt.
Answers ==
    {<<"x">>, <<"X">>, <<"?">>, <<>>, <<"a">>, <<"6">>, <<"-", "1">>,
     <<"1", "a">>, <<" ", "2">>, <<"0", "x", "3">>, <<"4", ".", "9">>}
    \cup {<<Digits[d]>> : d \in 1..6}

\* What the code makes of each answer: parseInt(answer), and whether
\* answer.toLowerCase() === 'x'.
AnswerNum == [a \in Answers |-> ParseInt(a)]
ExitAnswers == {a \in Answers : ToLowerCase(a) = <<"x">>}
HelpAnswers == {a \in Answers : a = <<"?">>} \ ExitAnswers
NumberAnswers == (Answers \ ExitAnswers) \ HelpAnswers

\* (computerNum + userNum) % (max - min + 1)
Combine(c, u, min, max) == JsRem(c + u, Range(min, max))

\* The lines generate writes: the commitment, then the opening of it and the
\* result.
CommitLine(round, min, max, h) ==
    [ev |-> "commit", round |-> round, min |-> min, max |-> max, hmac |-> h]
RevealLine(round, num, k) ==
    [ev |-> "reveal", round |-> round, num |-> num, key |-> KeyHex(k)]
ResultLine(round, c, u, r, mod) ==
    [ev |-> "result", round |-> round, computerNum |-> c, userNum |-> u,
     result |-> r, mod |-> mod]

\* The lines of one kind that round r has written.
LinesOf(ev, r) == {i \in DOMAIN out : out[i].ev = ev /\ out[i].round = r}

\* A readline loop starts: the menu is shown and the question asked.
InpOpen(kind, exclude) ==
    [kind |-> kind, exclude |-> exclude, helps |-> 0, invalids |-> 0,
     answer |-> Unset, shown |-> Unset]

\* A call generate(min, max, prompt), up to where randomNumber starts drawing:
\* a key is generated and randomNumber(min, max) is entered.
GenerateCall(min, max) ==
    /\ rounds' = rounds + 1
    /\ gmin' = min /\ gmax' = max
    /\ key' = Num(GenerateKey(keysDrawn))
    /\ keysDrawn' = keysDrawn + 1
    /\ smp' = SmpCall(min, max)
    /\ computerNum' = Unset /\ hmac' = Unset /\ userNum' = Unset
    /\ result' = Unset
    /\ gpc' = "sampling"

\* generate has returned to its caller: its locals are gone.
GenerateReturn ==
    /\ gpc' = "idle"
    /\ key' = Unset /\ computerNum' = Unset /\ hmac' = Unset
    /\ userNum' = Unset /\ result' = Unset
    /\ UNCHANGED <<calc, rounds, gmin, gmax, keysDrawn>>

\* randomNumber has returned the computer's number: the HMAC of it is computed
\* and shown, and getUserInput shows its menu and asks.
GenerateCommitLeaky ==
    /\ Running /\ gpc = "sampling" /\ smp.pc = "ret"
    /\ computerNum' = smp.ret
    /\ smp' = SmpIdle
    /\ hmac' = Num(Hmac(Val(key), Val(smp.ret)))
    /\ out' = out \o <<CommitLine(rounds, gmin, gmax, Hmac(Val(key), Val(smp.ret))),
                       RevealLine(rounds, Val(smp.ret), Val(key))>>
    /\ inp' = InpOpen("number", 0)
    /\ gpc' = "collect"
    /\ UNCHANGED <<calc, gameVars, keysDrawn, rounds, gmin, gmax, key, userNum, result>>
GenerateCommitSilent ==
    /\ Running /\ gpc = "sampling" /\ smp.pc = "ret"
    /\ computerNum' = smp.ret
    /\ smp' = SmpIdle
    /\ hmac' = Num(Hmac(Val(key), Val(smp.ret)))
    /\ inp' = InpOpen("number", 0)
    /\ gpc' = "collect"
    /\ UNCHANGED <<calc, gameVars, keysDrawn, rounds, gmin, gmax, key, userNum, result,
                   out>>
GenerateCommit ==
    /\ Running /\ gpc = "sampling" /\ smp.pc = "ret"
    /\ computerNum' = smp.ret
    /\ smp' = SmpIdle
    /\ hmac' = Num(Hmac(Val(key), Val(smp.ret)))
    /\ out' = Append(out, CommitLine(rounds, gmin, gmax, Hmac(Val(key), Val(smp.ret))))
    /\ inp' = InpOpen("number", 0)
    /\ gpc' = "collect"
    /\ UNCHANGED <<calc, gameVars, keysDrawn, rounds, gmin, gmax, key, userNum, result>>

\* The answer a is a number getUserInput returns.
ValidNumber(a, min, max) ==
    LET num == AnswerNum[a] IN
    /\ a \in NumberAnswers
    /\ ~IsNaN(num) /\ Val(num) >= min /\ Val(num) <= max

\* getUserInput, the answer x or X: rl.close() and process.exit(0).
GetUserInputExitLeaky ==
    /\ Running /\ gpc = "collect" /\ inp.kind = "number"
    /\ \E a \in ExitAnswers : TRUE
    /\ inp' = InpIdle
    /\ pc' = "exited"
    /\ out' = Append(out, RevealLine(rounds, Val(computerNum), Val(key)))
    /\ UNCHANGED <<calc, args, dice, currentGame, computerDice, userDice, computerRoll,
                   userRoll, outcome, smp, keysDrawn, rounds, gpc, gmin, gmax,
                   key, computerNum, hmac, userNum, result>>
GetUserInputExit ==
    /\ Running /\ gpc = "collect" /\ inp.kind = "number"
    /\ \E a \in ExitAnswers : TRUE
    /\ inp' = InpIdle
    /\ pc' = "exited"
    /\ UNCHANGED <<calc, args, dice, currentGame, computerDice, userDice, computerRoll,
                   userRoll, outcome, smp, keysDrawn, rounds, gpc, gmin, gmax,
                   key, computerNum, hmac, userNum, result, out>>

\* getUserInput, the answer ?: Game.showHelp (the table, or the note that there
\* is no game), a new readline interface, and the menu again.
GetUserInputHelpLeaky ==
    /\ Running /\ gpc = "collect" /\ inp.kind = "number"
    /\ \E a \in HelpAnswers :
        inp' = [inp EXCEPT !.helps = Bump(@, MaxRetries),
                           !.shown = Num(ShowHelp(currentGame))]
    /\ out' = IF LinesOf("reveal", rounds) = {}
              THEN Append(out, RevealLine(rounds, Val(computerNum), Val(key)))
              ELSE out
    /\ UNCHANGED <<calc, gameVars, smp, keysDrawn, rounds, gpc, gmin, gmax, key,
                   computerNum, hmac, userNum, result>>
GetUserInputHelp ==
    /\ Running /\ gpc = "collect" /\ inp.kind = "number"
    /\ \E a \in HelpAnswers :
        inp' = [inp EXCEPT !.helps = Bump(@, MaxRetries),
                           !.shown = Num(ShowHelp(currentGame))]
    /\ UNCHANGED <<calc, gameVars, smp, keysDrawn, rounds, gpc, gmin, gmax, key,
                   computerNum, hmac, userNum, result, out>>

\* getUserInput, any other answer that is no number of min..max: "Invalid
\* selection", and the menu again.
GetUserInputInvalid ==
    /\ Running /\ gpc = "collect" /\ inp.kind = "number"
    /\ \E a \in NumberAnswers :
        /\ ~ValidNumber(a, gmin, gmax)
        /\ inp' = [inp EXCEPT !.invalids = Bump(@, MaxRetries)]
    /\ UNCHANGED <<calc, gameVars, smp, keysDrawn, rounds, gpc, gmin, gmax, key,
                   computerNum, hmac, userNum, result, out>>

\* getUserInput, a number of min..max: rl.close() and the number is returned;
\* generate has the user's number. The line that was read stays in inp.answer
\* until generate goes on.
GetUserInputValid ==
    /\ Running /\ gpc = "collect" /\ inp.kind = "number"
    /\ \E a \in Answers :
        /\ ValidNumber(a, gmin, gmax)
        /\ userNum' = AnswerNum[a]
        /\ inp' = [InpIdle EXCEPT !.answer = Num(a)]
    /\ gpc' = "fixed"
    /\ UNCHANGED <<calc, gameVars, smp, keysDrawn, rounds, gmin, gmax, key,
                   computerNum, hmac, result, out>>

\* generate, after the await: the result is computed, the computer's number and
\* the key are shown, then the result.
GenerateRevealStuck ==
    /\ Running /\ gpc = "fixed"
    /\ userNum' = Unset
    /\ inp' = InpOpen("number", 0)
    /\ gpc' = "collect"
    /\ UNCHANGED <<calc, gameVars, smp, keysDrawn, rounds, gmin, gmax, key,
                   computerNum, hmac, result, out>>
GenerateRevealOther ==
    /\ Running /\ gpc = "fixed"
    /\ result' = Combine(Val(computerNum), Val(userNum), gmin, gmax)
    /\ \E c \in gmin..gmax :
        /\ c # Val(computerNum)
        /\ out' = out \o
            <<RevealLine(rounds, c, Val(key)),
              ResultLine(rounds, c, Val(userNum),
                         Combine(c, Val(userNum), gmin, gmax),
                         Range(gmin, gmax))>>
    /\ gpc' = "resolved"
    /\ inp' = InpIdle
    /\ UNCHANGED <<calc, gameVars, smp, keysDrawn, rounds, gmin, gmax, key,
                   computerNum, hmac, userNum>>
GenerateReveal ==
    /\ Running /\ gpc = "fixed"
    /\ result' = Combine(Val(computerNum), Val(userNum), gmin, gmax)
    /\ out' = out \o
        <<RevealLine(rounds, Val(computerNum), Val(key)),
          ResultLine(rounds, Val(computerNum), Val(userNum),
                     Combine(Val(computerNum), Val(userNum), gmin, gmax),
                     Range(gmin, gmax))>>
    /\ gpc' = "resolved"
    /\ inp' = InpIdle
    /\ UNCHANGED <<calc, gameVars, smp, keysDrawn, rounds, gmin, gmax, key,
                   computerNum, hmac, userNum>>

\* ------------------------------------------------- UserInterface.selectDice

\* The answer a is an index selectDice returns.
ValidIndexAny(a, n, exclude) ==
    LET index == AnswerNum[a] IN
    /\ a \in NumberAnswers
    /\ ~IsNaN(index) /\ Val(index) >= 0 /\ Val(index) < n
ValidIndex(a, n, exclude) ==
    LET index == AnswerNum[a] IN
    /\ a \in NumberAnswers
    /\ ~IsNaN(index) /\ Val(index) >= 0 /\ Val(index) < n
    /\ Val(index) # exclude

\* selectDice, the answer x or X: rl.close() and process.exit(0).
SelectDiceExit ==
    /\ Running /\ inp.kind = "dice"
    /\ \E a \in ExitAnswers : TRUE
    /\ inp' = InpIdle
    /\ pc' = "exited"
    /\ UNCHANGED <<calc, args, dice, currentGame, computerDice, userDice, computerRoll,
                   userRoll, outcome, smp, keysDrawn, rounds, gpc, gmin, gmax,
                   key, computerNum, hmac, userNum, result, out>>

\* selectDice, the answer ?: Game.showHelp, and the menu again.
SelectDiceHelp ==
    /\ Running /\ inp.kind = "dice"
    /\ \E a \in HelpAnswers :
        inp' = [inp EXCEPT !.helps = Bump(@, MaxRetries),
                           !.shown = Num(ShowHelp(currentGame))]
    /\ UNCHANGED <<calc, gameVars, smp, keysDrawn, rounds, gpc, gmin, gmax, key,
                   computerNum, hmac, userNum, result, out>>

\* selectDice, any other answer that is no index on offer: "Invalid selection",
\* and the menu again.
SelectDiceInvalid ==
    /\ Running /\ inp.kind = "dice"
    /\ \E a \in NumberAnswers :
        /\ ~ValidIndex(a, Len(dice), inp.exclude)
        /\ inp' = [inp EXCEPT !.invalids = Bump(@, MaxRetries)]
    /\ UNCHANGED <<calc, gameVars, smp, keysDrawn, rounds, gpc, gmin, gmax, key,
                   computerNum, hmac, userNum, result, out>>

\* ---------------------------------------------------------- main, Game.play

\* main: parse throws; the error is reported and the process exits with 1.
MainError ==
    /\ pc = "main"
    /\ ParseError(args) # <<>>
    /\ outcome' = <<"error">> \o ParseError(args)
    /\ pc' = "error"
    /\ UNCHANGED <<calc, args, dice, currentGame, computerDice, userDice, computerRoll,
                   userRoll, smp, genVars>>

\* main: the dice are parsed, the game is made the current one, and play calls
\* generate(0, 1) for the first move.
MainPlay ==
    /\ pc = "main"
    /\ ParseError(args) = <<>>
    /\ dice' = Parse(args)
    /\ currentGame' = TRUE
    /\ GenerateCall(0, 1)
    /\ pc' = "firstMove"
    /\ UNCHANGED <<calc, args, computerDice, userDice, computerRoll, userRoll, outcome,
                   inp, out>>

\* play: the first move is the computer's (the result is 1): it draws its dice.
PlayComputerFirst ==
    /\ pc = "firstMove" /\ gpc = "resolved"
    /\ result = Num(1)
    /\ GenerateReturn
    /\ smp' = SmpCall(0, Len(dice) - 1)
    /\ pc' = "computerPicksFirst"
    /\ UNCHANGED <<calc, args, dice, currentGame, computerDice, userDice, computerRoll,
                   userRoll, outcome, inp, out>>

\* play: the first move is the user's: selectDice offers every dice.
PlayUserFirst ==
    /\ pc = "firstMove" /\ gpc = "resolved"
    /\ result # Num(1)
    /\ GenerateReturn
    /\ inp' = InpOpen("dice", -1)
    /\ pc' = "userPicksFirst"
    /\ UNCHANGED <<calc, args, dice, currentGame, computerDice, userDice, computerRoll,
                   userRoll, outcome, smp, out>>

\* play: the computer, moving first, has drawn its dice: selectDice offers the
\* others.
PlayComputerPicked ==
    /\ pc = "computerPicksFirst" /\ smp.pc = "ret"
    /\ computerDice' = smp.ret
    /\ smp' = SmpIdle
    /\ inp' = InpOpen("dice", Val(smp.ret))
    /\ pc' = "userPicksSecond"
    /\ UNCHANGED <<calc, args, dice, currentGame, userDice, computerRoll, userRoll,
                   outcome, keysDrawn, rounds, gpc, gmin, gmax, key, computerNum,
                   hmac, userNum, result, out>>

\* play: the user, moving second, has selected a dice: the computer's roll
\* starts with generate(0, 5).
PlayUserPickedSecond ==
    /\ pc = "userPicksSecond" /\ inp.kind = "dice"
    /\ \E a \in Answers :
        /\ ValidIndex(a, Len(dice), inp.exclude)
        /\ userDice' = AnswerNum[a]
    /\ inp' = InpIdle
    /\ GenerateCall(0, MaxFace)
    /\ pc' = "computerRoll"
    /\ UNCHANGED <<calc, args, dice, currentGame, computerDice, computerRoll, userRoll,
                   outcome, out>>

\* play: the user, moving first, has selected a dice: the computer draws its own.
PlayUserPickedFirst ==
    /\ pc = "userPicksFirst" /\ inp.kind = "dice"
    /\ \E a \in Answers :
        /\ ValidIndex(a, Len(dice), inp.exclude)
        /\ userDice' = AnswerNum[a]
    /\ inp' = InpIdle
    /\ smp' = SmpCall(0, Len(dice) - 1)
    /\ pc' = "computerPicksSecond"
    /\ UNCHANGED <<calc, args, dice, currentGame, computerDice, computerRoll, userRoll,
                   outcome, keysDrawn, rounds, gpc, gmin, gmax, key, computerNum,
                   hmac, userNum, result, out>>

\* play: the computer has drawn the user's dice: it draws again.
PlayComputerRepick ==
    /\ pc = "computerPicksSecond" /\ smp.pc = "ret"
    /\ smp.ret = userDice
    /\ smp' = SmpCall(0, Len(dice) - 1)
    /\ UNCHANGED <<calc, gameVars, genVars>>

\* play: the computer has drawn another dice than the user's: its roll starts
\* with generate(0, 5).
PlayComputerPickedSecond ==
    /\ pc = "computerPicksSecond" /\ smp.pc = "ret"
    /\ smp.ret # userDice
    /\ computerDice' = smp.ret
    /\ GenerateCall(0, MaxFace)
    /\ pc' = "computerRoll"
    /\ UNCHANGED <<calc, args, dice, currentGame, userDice, computerRoll, userRoll,
                   outcome, inp, out>>

\* play: the computer's roll is the face at the round's result; the user's roll
\* starts with generate(0, 5).
PlayComputerRolledEarly ==
    /\ pc = "computerRoll" /\ gpc = "collect"
    /\ computerRoll' = computerNum
    /\ GenerateCall(0, MaxFace)
    /\ pc' = "userRoll"
    /\ UNCHANGED <<calc, args, dice, currentGame, computerDice, userDice, userRoll,
                   outcome, inp, out>>
PlayComputerRolled ==
    /\ pc = "computerRoll" /\ gpc = "resolved"
    /\ computerRoll' = Num(Roll(dice[Val(computerDice) + 1], Val(result)))
    /\ GenerateCall(0, MaxFace)
    /\ pc' = "userRoll"
    /\ UNCHANGED <<calc, args, dice, currentGame, computerDice, userDice, userRoll,
                   outcome, inp, out>>

\* The last line of play.
Outcome(user, computer) ==
    IF user > computer THEN <<"win">>
    ELSE IF computer > user THEN <<"lose">>
    ELSE <<"tie">>

\* play: the user's roll is the face at the round's result; the winner is
\* announced and main ends.
PlayUserRolled ==
    /\ pc = "userRoll" /\ gpc = "resolved"
    /\ userRoll' = Num(Roll(dice[Val(userDice) + 1], Val(result)))
    /\ outcome' = Outcome(Roll(dice[Val(userDice) + 1], Val(result)),
                          Val(computerRoll))
    /\ GenerateReturn
    /\ pc' = "done"
    /\ UNCHANGED <<calc, args, dice, currentGame, computerDice, userDice, computerRoll,
                   smp, inp, out>>

\* ------------------------------------------ a call of calculate or render

\* No call of calculate or render is running.
CalcIdle == [op |-> "none", dice |-> <<>>, ret |-> Unset]

\* calculate(dice1, dice2) returns.
CalculateReturn ==
    /\ calc.op = "calculate" /\ calc.ret = Unset
    /\ calc' = [calc EXCEPT !.ret = Num(Calculate(calc.dice[1], calc.dice[2]))]
    /\ UNCHANGED <<gameVars, genVars, smp>>

\* render(dice) has written its table.
RenderReturn ==
    /\ calc.op = "render" /\ calc.ret = Unset
    /\ calc' = [calc EXCEPT !.ret = Num(Render(calc.dice))]
    /\ UNCHANGED <<gameVars, genVars, smp>>

Init ==
    /\ pc = "main"
    /\ args \in ArgSets
    /\ dice = <<>> /\ currentGame = FALSE
    /\ smp = SmpIdle
    /\ keysDrawn = 0 /\ rounds = 0 /\ gpc = "idle" /\ gmin = 0 /\ gmax = 0
    /\ key = Unset /\ computerNum = Unset /\ hmac = Unset /\ userNum = Unset
    /\ result = Unset /\ inp = InpIdle /\ out = <<>>
    /\ computerDice = Unset /\ userDice = Unset
    /\ computerRoll = Unset /\ userRoll = Unset /\ outcome = Unset
    /\ calc = CalcIdle

Next ==
    \/ MainError \/ MainPlay
    \/ RandomNumberRedraw \/ RandomNumberReturn
    \/ GenerateCommit
    \/ GetUserInputExit \/ GetUserInputHelp \/ GetUserInputInvalid
    \/ GetUserInputValid
    \/ GenerateReveal
    \/ SelectDiceExit \/ SelectDiceHelp \/ SelectDiceInvalid
    \/ PlayComputerFirst \/ PlayUserFirst \/ PlayComputerPicked
    \/ PlayUserPickedSecond \/ PlayUserPickedFirst
    \/ PlayComputerRepick \/ PlayComputerPickedSecond
    \/ PlayComputerRolled \/ PlayUserRolled

Spec == Init /\ [][Next]_vars

\* ------------------------------------------- randomNumber called on its own

InitSampler ==
    /\ pc = "harness"
    /\ args = <<>> /\ dice = <<>> /\ currentGame = FALSE
    /\ \E min \in (-MinSpan)..MinSpan, range \in (-NegRange)..MaxRange :
           smp = SmpCall(min, min + range - 1)
    /\ keysDrawn = 0 /\ rounds = 0 /\ gpc = "idle" /\ gmin = 0 /\ gmax = 0
    /\ key = Unset /\ computerNum = Unset /\ hmac = Unset /\ userNum = Unset
    /\ result = Unset /\ inp = InpIdle /\ out = <<>>
    /\ computerDice = Unset /\ userDice = Unset
    /\ computerRoll = Unset /\ userRoll = Unset /\ outcome = Unset
    /\ calc = CalcIdle

NextSampler == RandomNumberRedraw \/ RandomNumberReturn

SpecSampler == InitSampler /\ [][NextSampler]_vars

\* The draw of the computer's dice, randomNumber(0, dice.length - 1), entered
\* with a number of dice around what one byte can tell apart.
InitSamplerFair ==
    /\ pc = "harness"
    /\ args = <<>> /\ dice = <<>> /\ currentGame = FALSE
    /\ \E n \in (ByteValues - DiceSpan)..(ByteValues + DiceSpan) :
           smp = SmpCall(0, n - 1)
    /\ keysDrawn = 0 /\ rounds = 0 /\ gpc = "idle" /\ gmin = 0 /\ gmax = 0
    /\ key = Unset /\ computerNum = Unset /\ hmac = Unset /\ userNum = Unset
    /\ result = Unset /\ inp = InpIdle /\ out = <<>>
    /\ computerDice = Unset /\ userDice = Unset
    /\ computerRoll = Unset /\ userRoll = Unset /\ outcome = Unset
    /\ calc = CalcIdle

\* The loop runs on and the entropy source is fair: a byte that can be drawn
\* again and again is drawn at last, so a pass that can end the loop again and
\* again does end it.
SpecSamplerFair ==
    /\ InitSamplerFair /\ [][NextSampler]_vars
    /\ WF_vars(NextSampler)
    /\ SF_vars(RandomNumberReturn)

\* ------------------------------------------------ generate called on its own

\* generate(min, max, prompt) has been entered with no game running: the first
\* key is drawn and randomNumber(min, max) starts.
InitGenerate ==
    /\ pc = "harness"
    /\ args = <<>> /\ dice = <<>> /\ currentGame = FALSE
    /\ \E min \in (-GenMinSpan)..GenMinSpan, range \in 1..GenMaxRange :
        /\ gmin = min /\ gmax = min + range - 1
        /\ smp = SmpCall(min, min + range - 1)
    /\ keysDrawn = 1 /\ key = Num(GenerateKey(0)) /\ rounds = 1
    /\ gpc = "sampling"
    /\ computerNum = Unset /\ hmac = Unset /\ userNum = Unset
    /\ result = Unset /\ inp = InpIdle /\ out = <<>>
    /\ computerDice = Unset /\ userDice = Unset
    /\ computerRoll = Unset /\ userRoll = Unset /\ outcome = Unset
    /\ calc = CalcIdle

NextGenerate ==
    \/ RandomNumberRedraw \/ RandomNumberReturn
    \/ GenerateCommit
    \/ GetUserInputExit \/ GetUserInputHelp \/ GetUserInputInvalid
    \/ GetUserInputValid
    \/ GenerateReveal

SpecGenerate == InitGenerate /\ [][NextGenerate]_vars

\* The same, with the process running on (a step of generate or of the
\* sampler that can be taken is taken, over a fair entropy source) and a user
\* who at last types a number of the range or x.
SpecGenerateFair ==
    /\ InitGenerate /\ [][NextGenerate]_vars
    /\ WF_vars(GenerateCommit) /\ WF_vars(GenerateReveal)
    /\ SF_vars(RandomNumberReturn)
    /\ WF_vars(GetUserInputValid \/ GetUserInputExit)

\* ---------------------------------- calculate and render called on their own

\* The dice of the calls: every dice with faces of 1..MaxPip (as second dice,
\* those with the faces 1 and MaxPip), and the dice of the command lines above.
PipDice == [1..Sides -> 1..MaxPip]
EdgeDice == [1..Sides -> {1, MaxPip}]
SampleDice ==
    { <<2, 2, 4, 4, 9, 9>>, <<1, 1, 6, 6, 8, 8>>, <<3, 3, 5, 5, 7, 7>>,
      <<6, 8, 1, 1, 8, 6>>, <<7, 5, 3, 7, 5, 3>>, <<-1, 0, 10, 4, 4, 12>> }

\* calculate has been entered with two dice, or render with three.
InitProbability ==
    /\ pc = "harness"
    /\ args = <<>> /\ dice = <<>> /\ currentGame = FALSE
    /\ smp = SmpIdle
    /\ keysDrawn = 0 /\ rounds = 0 /\ gpc = "idle" /\ gmin = 0 /\ gmax = 0
    /\ key = Unset /\ computerNum = Unset /\ hmac = Unset /\ userNum = Unset
    /\ result = Unset /\ inp = InpIdle /\ out = <<>>
    /\ computerDice = Unset /\ userDice = Unset
    /\ computerRoll = Unset /\ userRoll = Unset /\ outcome = Unset
    /\ \/ \E d1 \in PipDice \cup SampleDice, d2 \in EdgeDice \cup SampleDice :
             calc = [op |-> "calculate", dice |-> <<d1, d2>>, ret |-> Unset]
       \/ \E d1, d2, d3 \in SampleDice :
             calc = [op |-> "render", dice |-> <<d1, d2, d3>>, ret |-> Unset]

NextProbability == CalculateReturn \/ RenderReturn

SpecProbability == InitProbability /\ [][NextProbability]_vars

\* ------------------------------------------------------------------ claims

\* C1: in every round, whatever the user types, the key and the computer's
\* number are not shown while the user's number is unset: as long as the running
\* round has no user number, the commitment is all it has written.
C1_NoRevealBeforeUserNumber ==
    (gpc # "idle" /\ userNum = Unset) =>
        \A i \in DOMAIN out : out[i].round = rounds => out[i].ev = "commit"

\* The third round has shown key and number, and the user's number was fixed.
C1_Witness ==
    /\ gpc = "resolved" /\ rounds = 3 /\ userNum = Num(5)
    /\ LinesOf("reveal", 3) # {}

\* C2: a round left by x or X after its commitment has shown neither key and
\* number nor a result, and no round after it has: once the process has exited
\* from the prompt of round r, every such line is of a round before r.
C2_NoRevealAfterAbort ==
    (pc = "exited" /\ gpc = "collect") =>
        /\ \A i \in DOMAIN out :
              out[i].ev \in {"reveal", "result"} => out[i].round < rounds
        /\ LinesOf("commit", rounds) # {}

\* The second round was left at its prompt, after the first one was completed.
C2_Witness ==
    /\ pc = "exited" /\ gpc = "collect" /\ rounds = 2
    /\ LinesOf("commit", 2) # {} /\ LinesOf("reveal", 1) # {}
    /\ computerNum = Num(4)

\* C3: in every round the digest is shown before the user is asked: while the
\* prompt is open, and from then on, the digest of the round is on the console,
\* and key and number are shown only after it.
C3_DigestBeforeCollect ==
    /\ (gpc \in {"collect", "fixed", "resolved"}) =>
          \E i \in LinesOf("commit", rounds) : Num(out[i].hmac) = hmac
    /\ \A j \in DOMAIN out :
          out[j].ev = "reveal" =>
              \E i \in 1..(j - 1) :
                  out[i].ev = "commit" /\ out[i].round = out[j].round

\* The prompt of the second round is open: its digest is shown, its key is not.
C3_Witness ==
    /\ gpc = "collect" /\ inp.kind = "number" /\ rounds = 2 /\ pc # "exited"
    /\ LinesOf("commit", 2) # {} /\ LinesOf("reveal", 2) = {}

\* C4: the pair a round reveals is the pair it hashed: the HMAC of the revealed
\* number under the revealed key is the digest the round announced, and from the
\* commitment to the end of the round key and number are those of the digest.
C4_CommitmentBinding ==
    /\ \A j \in DOMAIN out :
          out[j].ev = "reveal" =>
              \E i \in 1..(j - 1) :
                  /\ out[i].ev = "commit" /\ out[i].round = out[j].round
                  /\ Hmac(HexDecode(out[j].key), out[j].num) = out[i].hmac
    /\ (gpc \in {"collect", "fixed", "resolved"}) =>
          /\ hmac = Num(Hmac(Val(key), Val(computerNum)))
          /\ \A i \in LinesOf("commit", rounds) : Num(out[i].hmac) = hmac

\* A round over 0..5 has revealed the number 3 after the user typed another one.
C4_Witness ==
    /\ gpc = "resolved" /\ gmax = 5 /\ computerNum = Num(3) /\ userNum = Num(4)
    /\ \E j \in LinesOf("reveal", rounds) : out[j].num = 3

\* C6: every round draws its own key: as many keys are drawn as rounds are
\* started, the digests of two rounds are under two keys, and the key a round
\* reveals is the key of no other round's digest.
C6_FreshKeyPerRound ==
    /\ keysDrawn = rounds
    /\ \A i, j \in DOMAIN out :
          (out[i].ev = "commit" /\ out[j].ev = "commit" /\ i # j) =>
              DigestKey(out[i].hmac) # DigestKey(out[j].hmac)
    /\ \A i, j \in DOMAIN out :
          (out[i].ev = "commit" /\ out[j].ev = "reveal"
              /\ out[i].round # out[j].round) =>
              DigestKey(out[i].hmac) # HexDecode(out[j].key)

\* The game is over: three rounds, the last two over the same range, have each
\* revealed a key.
C6_Witness ==
    /\ pc = "done" /\ rounds = 3
    /\ \A r \in 1..3 : LinesOf("reveal", r) # {}
    /\ \E i \in LinesOf("commit", 2), j \in LinesOf("commit", 3) :
          out[i].min = out[j].min /\ out[i].max = out[j].max


SmpRange == Range(smp.min, smp.max)

\* C7: whenever randomNumber(min, max) with min <= max returns, what it returns
\* is an integer in min..max, whatever bytes were drawn.
C7_ReturnInBounds ==
    (smp.pc = "ret" /\ smp.min <= smp.max) =>
        (~IsNaN(smp.ret) /\ Val(smp.ret) \in smp.min..smp.max)

\* A call with a range that is no power of two has returned after a redraw.
C7_Witness ==
    /\ smp.pc = "ret" /\ SmpRange = 6 /\ smp.min = -1
    /\ smp.draws = 2 /\ smp.ret = Num(smp.max)

\* The bytes randomNumber(min, max) accepts, each with the output it becomes.
Accepted(min, max) ==
    {<<v, SampleValue(min, Range(min, max), v)>> :
        v \in {b \in 0..(ByteValues - 1) : ~Rejected(b, Range(min, max))}}

\* C8: for every range the sampler supports (1..256, what one byte can cover),
\* every output of min..max has the same number of accepted bytes, 256 \div range
\* of them and so at least one, and the bytes that are discarded and drawn again
\* are exactly those at or above the limit, (256 \div range) * range.
C8_NoModuloBias ==
    /\ (smp.pc = "loop" /\ smp.draws = 0 /\ SmpRange \in 1..ByteValues) =>
          LET acc == Accepted(smp.min, smp.max) IN
          \A o \in smp.min..smp.max :
              Cardinality({p \in acc : p[2] = Num(o)}) =
                  FloorDiv(ByteValues, SmpRange)
    /\ (smp.pc = "loop" /\ SmpRange \in 1..ByteValues) =>
          {v \in 0..(ByteValues - 1) : Rejected(v, SmpRange)} =
              (FloorDiv(ByteValues, SmpRange) * SmpRange)..(ByteValues - 1)

\* A call over a range that does not divide 256 has discarded a byte and then
\* returned on an accepted one.
C8_Witness ==
    /\ smp.pc = "ret" /\ SmpRange = 100 /\ smp.draws = 2
    /\ smp.min = 1 /\ smp.ret = Num(100)

\* C9 (as claimed): a call with min = max returns min and has drawn no byte.
C9_SingletonDrawsNothing ==
    (smp.pc = "ret" /\ smp.min = smp.max) =>
        (smp.ret = Num(smp.min) /\ smp.draws = 0)

\* C10 (as claimed): a call with max < min fails; it never returns a value.
C10_InvalidRangeFails ==
    smp.max < smp.min => smp.pc # "ret"

\* C5 (as claimed): for every range min..max and whatever the two numbers of it,
\* the result of the round is (computerNum + userNum) mod (max - min + 1), a
\* number of 0..(max - min).
C5_ResultIsSumModRange ==
    gpc = "resolved" =>
        /\ result = Num((Val(computerNum) + Val(userNum)) % Range(gmin, gmax))
        /\ ~IsNaN(result) /\ Val(result) \in 0..(Range(gmin, gmax) - 1)

\* The line a is the decimal numeral of an integer of min..max.
DecimalIn(a, min, max) == \E n \in min..max : a = IntToString(n)

\* C11 (as claimed): getUserInput returns only numbers of min..max, and a line
\* that is not an integer of min..max is never returned to generate: the line
\* the returned number was read from is the numeral of an integer of min..max.
C11_OnlyIntegersReturned ==
    /\ userNum # Unset => Val(userNum) \in gmin..gmax
    /\ gpc = "fixed" => DecimalIn(Val(inp.answer), gmin, gmax)

\* C12: for any two dice A and B of six integer faces, calculate(A, B) is the
\* number of the 36 pairs of a face of A and a face of B with the first greater,
\* over 36; the wins of A over B, those of B over A and the ties add up to 36;
\* and [2,2,4,4,9,9] wins 20 of the 36 against [1,1,6,6,8,8].
C12_WinsAreFacePairs ==
    (calc.op = "calculate" /\ calc.ret # Unset) =>
        LET A == calc.dice[1]
            B == calc.dice[2]
            pairs == (1..6) \X (1..6)
            greater == {p \in pairs : A[p[1]] > B[p[2]]}
            ties == {p \in pairs : A[p[1]] = B[p[2]]}
        IN /\ Val(calc.ret).num = Cardinality(greater)
           /\ Val(calc.ret).den = 36
           /\ Val(calc.ret).num + Calculate(B, A).num + Cardinality(ties) = 36
           /\ (A = <<2, 2, 4, 4, 9, 9>> /\ B = <<1, 1, 6, 6, 8, 8>>) =>
                  Val(calc.ret).num = 20

\* calculate has returned 20 / 36 for the two dice of the claim.
C12_Witness ==
    /\ calc.op = "calculate"
    /\ calc.dice = << <<2, 2, 4, 4, 9, 9>>, <<1, 1, 6, 6, 8, 8>> >>
    /\ calc.ret = Num([num |-> 20, den |-> 36])

\* C13: for A = [2,2,4,4,9,9], B = [1,1,6,6,8,8], C = [3,3,5,5,7,7] calculate
\* gives more than a half for A over B, for B over C and for C over A, and the
\* table shows them so; and in the table of any three dice, in any order, the
\* cell of row i and column j (i # j) is the share of the 36 face pairs in which
\* the face of dice i is greater than that of dice j.
C13_NonTransitiveTable ==
    /\ (calc.op = "render" /\ calc.ret # Unset) =>
          LET ds == calc.dice
              cells == [i \in 1..3 |-> Val(calc.ret).rows[i].cells]
              pairs == (1..6) \X (1..6)
          IN /\ \A i, j \in 1..3 :
                    i # j =>
                        cells[i][j] =
                            ToFixed([num |-> Cardinality(
                                        {p \in pairs : ds[i][p[1]] > ds[j][p[2]]}),
                                     den |-> 36], 4)
             /\ ds = << <<2, 2, 4, 4, 9, 9>>, <<1, 1, 6, 6, 8, 8>>,
                        <<3, 3, 5, 5, 7, 7>> >> =>
                    /\ 2 * Calculate(ds[1], ds[2]).num > Calculate(ds[1], ds[2]).den
                    /\ 2 * Calculate(ds[2], ds[3]).num > Calculate(ds[2], ds[3]).den
                    /\ 2 * Calculate(ds[3], ds[1]).num > Calculate(ds[3], ds[1]).den
                    /\ cells[1][2] = <<"0", ".", "5", "5", "5", "6">>
                    /\ cells[2][3] = <<"0", ".", "5", "5", "5", "6">>
                    /\ cells[3][1] = <<"0", ".", "5", "5", "5", "6">>

\* render has written the table of A, B, C: A loses to C, which loses to B,
\* which loses to A.
C13_Witness ==
    /\ calc.op = "render" /\ calc.ret # Unset
    /\ calc.dice = << <<2, 2, 4, 4, 9, 9>>, <<1, 1, 6, 6, 8, 8>>,
                      <<3, 3, 5, 5, 7, 7>> >>
    /\ Val(calc.ret).rows[1].cells[3] = <<"0", ".", "4", "4", "4", "4">>
    /\ Val(calc.ret).rows[3].cells[2] = <<"0", ".", "4", "4", "4", "4">>
    /\ Val(calc.ret).rows[2].cells[1] = <<"0", ".", "4", "4", "4", "4">>

\* C14: the two players hold different dice: whoever moves first and whatever
\* the user types, once both dice are chosen they are two different indices of
\* the dice list, and no roll round starts before both are chosen.
C14_DifferentDice ==
    /\ (computerDice # Unset /\ userDice # Unset) =>
          /\ computerDice # userDice
          /\ Val(computerDice) \in 0..(Len(dice) - 1)
          /\ Val(userDice) \in 0..(Len(dice) - 1)
    /\ rounds >= 2 => (computerDice # Unset /\ userDice # Unset)

\* The computer's roll has started in a game of four dice: the computer holds
\* the last dice and the user the first.
C14_Witness ==
    /\ pc = "computerRoll" /\ rounds = 2 /\ Len(dice) = 4
    /\ computerDice = Num(3) /\ userDice = Num(0)

\* The text s is a decimal integer: digits, with or without a sign in front.
IntegerText(s) ==
    LET body == IF Len(s) > 0 /\ s[1] \in {"-", "+"} THEN Tail(s) ELSE s IN
    /\ Len(body) > 0
    /\ \A k \in DOMAIN body : body[k] \in {Digits[d] : d \in 1..10}

\* The command line names at least three dice, each of six integer faces.
WellFormed(as) ==
    /\ Len(as) >= 3
    /\ \A i \in DOMAIN as :
          /\ Len(Split(as[i])) = 6
          /\ \A j \in DOMAIN Split(as[i]) : IntegerText(Split(as[i])[j])

\* C15 (as claimed): a game is started, and the sampler or a round entered, only
\* if the command line names at least three dice of six integer faces each; with
\* any other command line main reports an error and ends, no round started.
C15_MalformedInputRejected ==
    /\ (currentGame \/ rounds > 0 \/ smp.pc # "idle") => WellFormed(args)
    /\ (~WellFormed(args) /\ pc # "main") =>
          (pc = "error" /\ outcome # Unset /\ rounds = 0 /\ out = <<>>)

\* C16 (as claimed): with a fair entropy source every call randomNumber(min,
\* max) with min <= max returns at last, whatever the range; so does the draw of
\* the computer's dice, randomNumber(0, dice.length - 1), for every number of
\* dice the parser accepts.
C16_SamplerReturns ==
    (smp.pc = "loop" /\ MinDice <= SmpRange) ~> (smp.pc = "ret")

\* C17: a help request at the prompt of a round is out of band: the step that
\* reads ? (a help more is counted) leaves key, computer number, digest and
\* range as they are, fixes no user number, writes no line of the protocol
\* (neither key nor number is shown; what it shows is the table or the note),
\* and the same prompt is open again with the round committed.
C17_HelpIsOutOfBand ==
    [][(gpc = "collect" /\ inp.kind = "number" /\ inp'.helps > inp.helps) =>
        /\ gpc' = "collect" /\ inp'.kind = "number" /\ inp'.exclude = inp.exclude
        /\ inp'.shown \in {Num("table"), Num("note")}
        /\ userNum' = Unset
        /\ UNCHANGED <<key, computerNum, hmac, gmin, gmax, userNum, result, out,
                       rounds, keysDrawn, smp, pc>>]_vars

\* The prompt of the second round is open again after a help request that
\* showed the table: the round has its commitment and nothing else.
C17_Witness ==
    /\ gpc = "collect" /\ inp.kind = "number" /\ rounds = 2 /\ pc # "exited"
    /\ inp.shown = Num("table") /\ inp.helps = 1
    /\ userNum = Unset /\ LinesOf("commit", 2) # {} /\ LinesOf("reveal", 2) = {}

\* C18: the rounds of a game do not overlap: every round but the running one
\* has its result written, so at most one round is between its commitment and
\* its result; and a round writes its commitment only after the result of the
\* round before it and after every line of the earlier rounds, whatever answers
\* and help requests come between.
C18_RoundsDoNotOverlap ==
    /\ \A r \in 1..(rounds - 1) :
          \E i \in DOMAIN out : out[i].ev = "result" /\ out[i].round = r
    /\ \A j \in DOMAIN out :
          out[j].ev = "commit" =>
              /\ \A i \in 1..(j - 1) : out[i].round < out[j].round
              /\ out[j].round > 1 =>
                     \E i \in 1..(j - 1) :
                         out[i].ev = "result" /\ out[i].round = out[j].round - 1

\* The third round is committed and asks again after a help request and an
\* invalid answer; the two rounds before it have their results.
C18_Witness ==
    /\ rounds = 3 /\ gpc = "collect" /\ pc = "userRoll"
    /\ inp.helps = 1 /\ inp.invalids = 1
    /\ LinesOf("result", 1) # {} /\ LinesOf("result", 2) # {}
    /\ LinesOf("commit", 3) # {} /\ LinesOf("result", 3) = {}

\* C19: a round that has written its commitment at last either is resolved (key
\* and number shown, the result computed) or is left by x, if the user at last
\* types a number of the range or x; invalid answers and help requests before
\* that do not prevent it.
C19_CommittedRoundCompletes ==
    (gpc = "collect") ~>
        \/ /\ gpc = "resolved" /\ result # Unset
           /\ \E i \in DOMAIN out : out[i].ev = "reveal" /\ out[i].round = rounds
        \/ pc = "exited"

\* A round over -1..1 is resolved, its reveal and its result written.
C19_Witness ==
    /\ gpc = "resolved" /\ pc = "harness" /\ gmin = -1 /\ gmax = 1
    /\ userNum = Num(1) /\ result # Unset
    /\ LinesOf("reveal", 1) # {} /\ LinesOf("result", 1) # {}

\* C20 (as claimed): neither side alone determines the result: in a resolved
\* round over min..max, with the user's number held fixed the results of all
\* the computer's numbers of min..max are each of 0..(max - min) exactly once,
\* and likewise with the computer's number held fixed and the user's varied.
C20_EachSideIsBijection ==
    gpc = "resolved" =>
        LET R == gmin..gmax
            T == {Num(r) : r \in 0..(Range(gmin, gmax) - 1)}
        IN /\ {Combine(c, Val(userNum), gmin, gmax) : c \in R} = T
           /\ {Combine(Val(computerNum), u, gmin, gmax) : u \in R} = T
           /\ \A c1, c2 \in R :
                 Combine(c1, Val(userNum), gmin, gmax) =
                     Combine(c2, Val(userNum), gmin, gmax) => c1 = c2
           /\ \A u1, u2 \in R :
                 Combine(Val(computerNum), u1, gmin, gmax) =
                     Combine(Val(computerNum), u2, gmin, gmax) => u1 = u2

====
